---- MODULE Spec2Model ----
(***************************************************************************)
(* The credit-card analytics notebook (src/framework.ipynb) as a state     *)
(* machine.  The state is the kernel's variables (the DataFrames the cells *)
(* assign); one action per statement group of a code cell, run in document *)
(* order.  A cell that raises stops at the raising statement and keeps the *)
(* assignments made before it; the cells after it can still be run.        *)
(*                                                                         *)
(* Dates are integers YYYYMMDD (their order is the calendar order; the     *)
(* date columns carry no time of day), months are integers YYYYMM, a       *)
(* missing date is NaT, a missing number is NaN.  A DataFrame is the       *)
(* sequence of its rows, a row a record of its columns.  Init draws the    *)
(* CSV files from six families of inputs, each rich in the columns one     *)
(* stage reads.                                                            *)
(***************************************************************************)
EXTENDS Integers, Sequences, FiniteSets, TLC

\* ------------------------------------------------------------------ bounds
MaxRows == 2
MaxChunk == 2
MaxRams == 3
MaxAcctTxns == 3
MaxAccts == 2
MaxFraud == 2

\* ------------------------------------------------------- program constants
FilterStart == 20240501
FilterEnd == 20250331
FeatStart == 20240501
FeatEnd == 20240930
LabelStart == 20241001
LabelEnd == 20241231
T1 == 1000
T2 == 10000
NaT == 0
NaN == -1

\* ------------------------------------------------------------- generic helpers
SeqsUpTo(S, n) == UNION {[1..k -> S] : k \in 0..n}

Min(a, b) == IF a <= b THEN a ELSE b

Range(s) == {s[i] : i \in 1..Len(s)}

\* a concatenation that loses the last piece
RECURSIVE FlattenButLast(_)
FlattenButLast(ss) ==
  IF Len(ss) <= 1 THEN <<>> ELSE Head(ss) \o FlattenButLast(Tail(ss))

RECURSIVE Flatten(_)
Flatten(ss) == IF ss = <<>> THEN <<>> ELSE Head(ss) \o Flatten(Tail(ss))

\* pandas comparisons with a missing date are False
DateGE(d, s) == d # NaT /\ d >= s
DateLE(d, s) == d # NaT /\ d <= s

\* ------------------------------------------------------------------ rows
TxnRow(a, d, m) ==
  [current_account_nbr |-> a, transaction_date |-> d, transaction_amt |-> m]

AcctRow(a, c, coll) ==
  [current_account_nbr |-> a, client_id |-> c, open_date |-> 20200101,
   date_in_collection |-> coll]

RamsRow(a, d, line) ==
  [cu_account_nbr |-> a, cu_processing_date |-> d, cu_crd_line |-> line,
   cu_crd_bureau_scr |-> 700]

VARIABLES
  pc,                \* the statement group to run next
  status,            \* per cell: "ok" or "error" once it has run
  files,             \* the two transaction CSV files, as sequences of rows
  account_dim,       \* data/account_dim CSV
  rams_batch_cur,    \* data/rams_batch_cur CSV
  fraud_claim_case,  \* data/fraud_claim_case CSV
  fraud_claim_tran,  \* data/fraud_claim_tran CSV
  chunksize,
  fi,                \* index of the file being read
  pos,               \* rows of files[fi] already read
  transactions_list,
  transactions,
  accounts,
  fraud_cases,
  fraud_trans,
  rams,
  rams_latest,
  monthly_spend,     \* the monthly series: rows of month and transaction_amt
  forecast,          \* the index of the forecast Series: the forecast months
  features_df,
  X,                 \* the feature matrix last assigned to X
  y,                 \* the target last assigned to y
  model,
  predictions_df,
  risk_labels

vars == <<pc, status, files, account_dim, rams_batch_cur, fraud_claim_case,
          fraud_claim_tran, chunksize, fi, pos, transactions_list, transactions,
          accounts, fraud_cases, fraud_trans, rams, rams_latest, monthly_spend,
          forecast, features_df, X, y, model, predictions_df, risk_labels>>

inputs == <<files, account_dim, rams_batch_cur, fraud_claim_case, fraud_claim_tran,
            chunksize>>

\* ------------------------------------------------------------ input families
\* Transaction files rich in dates around the ingestion range, every chunk size.
LoadDates == {NaT, 20240430, FilterStart, FilterEnd, 20250401}
LoadRows == {TxnRow(a, d, 10) : a \in {1, 2}, d \in LoadDates}
LoadAcctTables ==
  { <<>>, <<AcctRow(1, 7, NaT)>>, <<AcctRow(1, 7, NaT), AcctRow(1, 8, NaT)>>,
    <<AcctRow(2, 7, NaT), AcctRow(1, 8, NaT)>> }

InputsLoad ==
  /\ files \in {f \in SeqsUpTo(LoadRows, MaxRows) \X SeqsUpTo(LoadRows, MaxRows) :
                  Len(f[1]) + Len(f[2]) <= MaxRows}
  /\ chunksize \in 1..MaxChunk
  /\ account_dim \in LoadAcctTables
  /\ rams_batch_cur = <<>>
  /\ fraud_claim_case = <<>>
  /\ fraud_claim_tran = <<>>

\* Snapshot files with several processing dates per account.
SnapDates == {NaT, 20240801, 20250301}
SnapRows == {RamsRow(a, d, l) : a \in {1, 2}, d \in SnapDates, l \in {100, 200}}

InputsSnap ==
  /\ files = << <<>>, <<>> >>
  /\ chunksize = MaxChunk
  /\ account_dim = <<AcctRow(1, 7, NaT), AcctRow(2, 7, NaT)>>
  /\ rams_batch_cur \in SeqsUpTo(SnapRows, MaxRams)
  /\ fraud_claim_case = <<>>
  /\ fraud_claim_tran = <<>>

\* Account 1 with transactions around the feature and label windows,
\* account 2 with one transaction in each window.
FeatDates == {FeatEnd, LabelStart, LabelEnd, 20250101}
FeatRows == {TxnRow(1, d, m) : d \in FeatDates, m \in {1, 2}}
\* <<account_dim, rams_batch_cur>>: a snapshot dated after the label window,
\* an account without transactions, an account missing from account_dim, an
\* account id that occurs twice in account_dim
FeatTables ==
  { << <<AcctRow(1, 7, NaT), AcctRow(2, 7, NaT)>>,
       <<RamsRow(1, 20250301, 100), RamsRow(2, 20240801, 200)>> >>,
    << <<AcctRow(1, 7, NaT), AcctRow(2, 7, NaT), AcctRow(3, 7, NaT)>>, <<>> >>,
    << <<AcctRow(2, 7, NaT)>>, <<RamsRow(1, 20240801, 100)>> >>,
    << <<AcctRow(1, 7, NaT), AcctRow(2, 7, NaT)>>, <<RamsRow(1, 20240801, 100)>> >>,
    << <<AcctRow(1, 7, NaT), AcctRow(1, 8, NaT), AcctRow(2, 7, NaT)>>,
       <<RamsRow(1, 20240801, 100)>> >> }

InputsFeat ==
  /\ files \in {<<f, <<TxnRow(2, 20240615, 3), TxnRow(2, 20241115, 3)>> >> :
                  f \in SeqsUpTo(FeatRows, MaxAcctTxns)}
  /\ chunksize = MaxChunk
  /\ \E t \in FeatTables : account_dim = t[1] /\ rams_batch_cur = t[2]
  /\ fraud_claim_case = <<>>
  /\ fraud_claim_tran = <<>>

\* Three accounts with history in both windows, label sums around the thresholds.
TierAmts == {-500, 0, 500, T1, T1 + 1, T2, T2 + 1, 15000}

InputsTier ==
  /\ files \in {<< <<TxnRow(1, 20240615, 600), TxnRow(1, 20241115, m1)>>,
                   <<TxnRow(2, 20240615, 600), TxnRow(2, 20241115, 5000),
                     TxnRow(3, 20240615, 600), TxnRow(3, 20241115, m3)>> >> :
                  m1 \in TierAmts, m3 \in {0, 15000}}
  /\ chunksize = MaxChunk
  /\ account_dim = <<AcctRow(1, 7, NaT), AcctRow(2, 7, NaT), AcctRow(3, 7, NaT),
                     AcctRow(4, 7, NaT)>>
  /\ rams_batch_cur = <<RamsRow(1, 20240801, 100), RamsRow(2, 20240801, NaN)>>
  /\ fraud_claim_case = <<>>
  /\ fraud_claim_tran = <<>>

\* Account tables with collections flags, fraud-case tables naming known and
\* unknown accounts.
RiskAcctRows == {AcctRow(a, 7, c) : a \in {1, 2}, c \in {NaT, 20250110}}
FraudIds == {1, 2, 9}
\* fraud-transaction tables: empty, or one flagged transaction of an account
FraudTranTables ==
  {<<>>} \cup {<<[current_account_nbr |-> a, transaction_dt |-> 20250105]>> :
                a \in {1, 2}}

InputsRisk ==
  /\ files = << <<>>, <<>> >>
  /\ chunksize = MaxChunk
  /\ account_dim \in SeqsUpTo(RiskAcctRows, MaxAccts)
  /\ rams_batch_cur = <<>>
  /\ fraud_claim_case \in SeqsUpTo([current_account_nbr : FraudIds], MaxFraud)
  /\ fraud_claim_tran \in FraudTranTables

\* One account with a transaction in every month of the ingestion range (11
\* months), with amounts that vary, with constant amounts, and with a month
\* left out; the months are split over the two files.
SeriesDates ==
  <<20240515, 20240615, 20240715, 20240815, 20240915, 20241015, 20241115,
    20241215, 20250115, 20250215, 20250315>>
SeriesFiles ==
  { << [i \in 1..6 |-> TxnRow(1, SeriesDates[i], 100 * i)],
       [i \in 1..5 |-> TxnRow(1, SeriesDates[i + 6], 50 * i)] >>,
    << [i \in 1..6 |-> TxnRow(1, SeriesDates[i], 100)],
       [i \in 1..5 |-> TxnRow(1, SeriesDates[i + 6], 100)] >>,
    << [i \in 1..6 |-> TxnRow(1, SeriesDates[i], 100)],
       [i \in 1..4 |-> TxnRow(1, SeriesDates[i + 7], 100)] >> }

InputsSeries ==
  /\ files \in SeriesFiles
  /\ chunksize = MaxChunk
  /\ account_dim = <<AcctRow(1, 7, NaT)>>
  /\ rams_batch_cur = <<>>
  /\ fraud_claim_case = <<>>
  /\ fraud_claim_tran = <<>>

Init ==
  /\ \/ InputsLoad \/ InputsSnap \/ InputsFeat \/ InputsTier \/ InputsRisk
     \/ InputsSeries
  /\ pc = "read"
  /\ status = [c \in {"load", "arima", "seasonal", "features", "segment", "risk",
                       "classifier"} |-> "none"]
  /\ fi = 1
  /\ pos = 0
  /\ transactions_list = <<>>
  /\ transactions = <<>>
  /\ accounts = <<>>
  /\ fraud_cases = <<>>
  /\ fraud_trans = <<>>
  /\ rams = <<>>
  /\ rams_latest = <<>>
  /\ monthly_spend = <<>>
  /\ forecast = <<>>
  /\ features_df = <<>>
  /\ X = <<>>
  /\ y = <<>>
  /\ model = [fitted |-> FALSE, lo |-> 0, hi |-> 0]
  /\ predictions_df = <<>>
  /\ risk_labels = <<>>

\* ---------------------------------------------------------------- cell 2
\* a filter that forgets the upper end of the range
mask_open_end(row) == DateGE(row.transaction_date, FilterStart)

\* mask = (transaction_date >= "2024-05-01") & (transaction_date <= "2025-03-31")
mask(row) ==
  DateGE(row.transaction_date, FilterStart) /\ DateLE(row.transaction_date, FilterEnd)

RECURSIVE FilterRows(_)
FilterRows(chunk) ==
  IF chunk = <<>> THEN <<>>
  ELSE IF mask(Head(chunk)) THEN <<Head(chunk)>> \o FilterRows(Tail(chunk))
  ELSE FilterRows(Tail(chunk))

\* a chunk loop that puts each filtered chunk in front of the earlier ones
ReadChunkPrepends ==
  /\ pc = "read"
  /\ LET f == files[fi]
         hi == Min(pos + chunksize, Len(f))
         chunk == SubSeq(f, pos + 1, hi)
     IN /\ transactions_list' = <<FilterRows(chunk)>> \o transactions_list
        /\ IF hi < Len(f)
           THEN /\ pos' = hi
                /\ UNCHANGED <<fi, pc>>
           ELSE /\ pos' = 0
                /\ IF fi < Len(files)
                   THEN fi' = fi + 1 /\ UNCHANGED pc
                   ELSE UNCHANGED fi /\ pc' = "concat"
  /\ UNCHANGED <<status, inputs, transactions, accounts, fraud_cases, fraud_trans,
                 rams, rams_latest, monthly_spend, forecast, features_df, X, y, model,
                 predictions_df, risk_labels>>

\* One iteration of the chunk loop: read the next chunk of the current file
\* (an empty file yields one empty chunk), filter it, append it.
ReadChunk ==
  /\ pc = "read"
  /\ LET f == files[fi]
         hi == Min(pos + chunksize, Len(f))
         chunk == SubSeq(f, pos + 1, hi)
     IN /\ transactions_list' = Append(transactions_list, FilterRows(chunk))
        /\ IF hi < Len(f)
           THEN /\ pos' = hi
                /\ UNCHANGED <<fi, pc>>
           ELSE /\ pos' = 0
                /\ IF fi < Len(files)
                   THEN fi' = fi + 1 /\ UNCHANGED pc
                   ELSE UNCHANGED fi /\ pc' = "concat"
  /\ UNCHANGED <<status, inputs, transactions, accounts, fraud_cases, fraud_trans,
                 rams, rams_latest, monthly_spend, forecast, features_df, X, y, model,
                 predictions_df, risk_labels>>

\* transactions = pd.concat(transactions_list, ignore_index=True)
Concat ==
  /\ pc = "concat"
  /\ transactions' = Flatten(transactions_list)
  /\ pc' = "load"
  /\ UNCHANGED <<status, inputs, fi, pos, transactions_list, accounts, fraud_cases,
                 fraud_trans, rams, rams_latest, monthly_spend, forecast, features_df,
                 X, y, model, predictions_df, risk_labels>>

\* read_csv gives every row its position as index label
WithIndex(s) ==
  [i \in 1..Len(s) |->
     [idx |-> i, cu_account_nbr |-> s[i].cu_account_nbr,
      cu_processing_date |-> s[i].cu_processing_date,
      cu_crd_line |-> s[i].cu_crd_line,
      cu_crd_bureau_scr |-> s[i].cu_crd_bureau_scr]]

LoadTables ==
  /\ pc = "load"
  /\ accounts' = account_dim
  /\ fraud_cases' = fraud_claim_case
  /\ fraud_trans' = fraud_claim_tran
  /\ rams' = WithIndex(rams_batch_cur)
  /\ pc' = "merge_txn"
  /\ UNCHANGED <<status, inputs, fi, pos, transactions_list, transactions,
                 rams_latest, monthly_spend, forecast, features_df, X, y, model,
                 predictions_df, risk_labels>>

\* transactions.merge(accounts[[key, "client_id", "open_date"]], how="left"):
\* the rows of the left table in order, each once per matching right row, or
\* once with the right columns missing when none matches.
RECURSIVE MatchRows(_, _)
MatchRows(t, accts) ==
  IF accts = <<>> THEN <<>>
  ELSE LET r == Head(accts)
       IN (IF r.current_account_nbr = t.current_account_nbr
           THEN << [current_account_nbr |-> t.current_account_nbr,
                    transaction_date |-> t.transaction_date,
                    transaction_amt |-> t.transaction_amt,
                    client_id |-> r.client_id, open_date |-> r.open_date] >>
           ELSE <<>>) \o MatchRows(t, Tail(accts))

\* an inner join: a row without a match is dropped
InnerJoinRow(t, accts) == MatchRows(t, accts)

LeftJoinRow(t, accts) ==
  IF MatchRows(t, accts) = <<>>
  THEN << [current_account_nbr |-> t.current_account_nbr,
           transaction_date |-> t.transaction_date,
           transaction_amt |-> t.transaction_amt,
           client_id |-> NaN, open_date |-> NaT] >>
  ELSE MatchRows(t, accts)

RECURSIVE MergeLeft(_, _)
MergeLeft(txns, accts) ==
  IF txns = <<>> THEN <<>>
  ELSE LeftJoinRow(Head(txns), accts) \o MergeLeft(Tail(txns), accts)

MergeTransactions ==
  /\ pc = "merge_txn"
  /\ transactions' = MergeLeft(transactions, accounts)
  /\ pc' = "snapshot"
  /\ UNCHANGED <<status, inputs, fi, pos, transactions_list, accounts, fraud_cases,
                 fraud_trans, rams, rams_latest, monthly_spend, forecast, features_df,
                 X, y, model, predictions_df, risk_labels>>

\* rams.sort_values(["cu_account_nbr", "cu_processing_date"], ascending=[True, False]):
\* account ascending, then date descending with missing dates last; the
\* multi-column sort is a stable lexsort.
\* dates ascending instead of descending
DateAscBefore(d1, d2) == d1 # NaT /\ (d2 = NaT \/ d1 < d2)

DateDescBefore(d1, d2) == d1 # NaT /\ (d2 = NaT \/ d1 > d2)

SortsBefore(r1, r2) ==
  \/ r1.cu_account_nbr < r2.cu_account_nbr
  \/ /\ r1.cu_account_nbr = r2.cu_account_nbr
     /\ DateDescBefore(r1.cu_processing_date, r2.cu_processing_date)

\* insert r after every row that does not sort strictly after it
RECURSIVE InsertRow(_, _)
InsertRow(r, sorted) ==
  IF sorted = <<>> THEN <<r>>
  ELSE IF SortsBefore(r, Head(sorted)) THEN <<r>> \o sorted
  ELSE <<Head(sorted)>> \o InsertRow(r, Tail(sorted))

RECURSIVE SortFrom(_, _)
SortFrom(todo, sorted) ==
  IF todo = <<>> THEN sorted ELSE SortFrom(Tail(todo), InsertRow(Head(todo), sorted))

sort_values(df) == SortFrom(df, <<>>)

\* drop_duplicates(subset="cu_account_nbr", keep="first")
RECURSIVE DropFrom(_, _)
DropFrom(df, seen) ==
  IF df = <<>> THEN <<>>
  ELSE IF Head(df).cu_account_nbr \in seen THEN DropFrom(Tail(df), seen)
  ELSE <<Head(df)>> \o DropFrom(Tail(df), seen \cup {Head(df).cu_account_nbr})

drop_duplicates(df) == DropFrom(df, {})

\* accounts.merge(rams_latest, on="current_account_nbr", how="left")
RECURSIVE SnapshotMatches(_, _)
SnapshotMatches(a, latest) ==
  IF latest = <<>> THEN <<>>
  ELSE LET s == Head(latest)
       IN (IF s.cu_account_nbr = a.current_account_nbr
           THEN << [current_account_nbr |-> a.current_account_nbr,
                    client_id |-> a.client_id, open_date |-> a.open_date,
                    date_in_collection |-> a.date_in_collection,
                    cu_processing_date |-> s.cu_processing_date,
                    cu_crd_line |-> s.cu_crd_line,
                    cu_crd_bureau_scr |-> s.cu_crd_bureau_scr] >>
           ELSE <<>>) \o SnapshotMatches(a, Tail(latest))

SnapshotJoinRow(a, latest) ==
  IF SnapshotMatches(a, latest) = <<>>
  THEN << [current_account_nbr |-> a.current_account_nbr,
           client_id |-> a.client_id, open_date |-> a.open_date,
           date_in_collection |-> a.date_in_collection,
           cu_processing_date |-> NaT, cu_crd_line |-> NaN,
           cu_crd_bureau_scr |-> NaN] >>
  ELSE SnapshotMatches(a, latest)

RECURSIVE MergeSnapshot(_, _)
MergeSnapshot(accts, latest) ==
  IF accts = <<>> THEN <<>>
  ELSE SnapshotJoinRow(Head(accts), latest) \o MergeSnapshot(Tail(accts), latest)

\* lines 88-91: sort in place, keep the first row per account, join onto accounts
LatestSnapshot ==
  /\ pc = "snapshot"
  /\ rams' = sort_values(rams)
  /\ rams_latest' = drop_duplicates(rams')
  /\ accounts' = MergeSnapshot(accounts, rams_latest')
  /\ status' = [status EXCEPT !["load"] = "ok"]
  /\ pc' = "arima"
  /\ UNCHANGED <<inputs, fi, pos, transactions_list, transactions, fraud_cases,
                 fraud_trans, monthly_spend, forecast, features_df, X, y, model,
                 predictions_df, risk_labels>>

\* the keys of a groupby result, ascending
RECURSIVE Ascending(_)
Ascending(S) ==
  IF S = {} THEN <<>>
  ELSE LET lo == CHOOSE x \in S : \A w \in S : x <= w
       IN <<lo>> \o Ascending(S \ {lo})

\* ---------------------------------------------------------------- cell 4
\* transaction_date.dt.to_period("M"): the month of a date, as YYYYMM
to_period(d) == d \div 100

\* the month after a month
NextPeriod(p) == IF p % 100 = 12 THEN p + 89 ELSE p + 1

\* pd.period_range(start, periods=n, freq="M"): n consecutive months from start
RECURSIVE period_range(_, _)
period_range(start, periods) ==
  IF periods = 0 THEN <<>>
  ELSE <<start>> \o period_range(NextPeriod(start), periods - 1)

\* transactions["month"] = ...: the table with the month column
WithMonth(df) ==
  [i \in 1..Len(df) |-> [month |-> to_period(df[i].transaction_date)] @@ df[i]]

\* the sum of transaction_amt over the rows of the positions sel with month p
RECURSIVE MonthSum(_, _, _)
MonthSum(df, sel, p) ==
  IF sel = {} THEN 0
  ELSE LET i == CHOOSE x \in sel : TRUE
       IN (IF to_period(df[i].transaction_date) = p THEN df[i].transaction_amt ELSE 0)
          + MonthSum(df, sel \ {i}, p)

\* df.groupby("month")["transaction_amt"].sum().sort_index(): one row per month
\* that has a transaction (a missing month is no group), ascending
GroupByMonth(df) ==
  LET keys == Ascending({to_period(df[i].transaction_date) : i \in 1..Len(df)} \ {NaT})
  IN [k \in 1..Len(keys) |->
        [month |-> keys[k], transaction_amt |-> MonthSum(df, 1..Len(df), keys[k])]]

\* monthly_spend.index.max()
LastMonth(series) == series[Len(series)].month

\* forecast_steps = 5 (line 145)
forecast_steps == 5

\* lines 137-147: the monthly series, ARIMA(1, 1, 1) on it and the forecast
\* index; ARIMA() raises on a series without observations, and the
\* assignments made before stay
FitArima ==
  /\ pc = "arima"
  /\ transactions' = WithMonth(transactions)
  /\ monthly_spend' = GroupByMonth(transactions')
  /\ IF monthly_spend' = <<>>
     THEN /\ status' = [status EXCEPT !["arima"] = "error"]
          /\ UNCHANGED forecast
     ELSE /\ forecast' = period_range(NextPeriod(LastMonth(monthly_spend')),
                                      forecast_steps)
          /\ status' = [status EXCEPT !["arima"] = "ok"]
  /\ pc' = "auto_arima"
  /\ UNCHANGED <<inputs, fi, pos, transactions_list, accounts, fraud_cases,
                 fraud_trans, rams, rams_latest, features_df, X, y, model,
                 predictions_df, risk_labels>>

\* ---------------------------------------------------------------- cell 5
\* m = 12 (line 185)
seasonal_m == 12

\* forecast_steps = 9 (line 191), forecast(9) (line 211)
forecast_steps_seasonal == 9

\* auto_arima returns a (0, 0, 0) model for a constant series before it looks
\* at the seasonal order
is_constant(series) ==
  \A i \in 1..Len(series) : series[i].transaction_amt = series[1].transaction_amt

\* pm.auto_arima(monthly_spend, seasonal=True, m=12) raises ValueError: on an
\* empty series, and on a series that is not constant and has no sample left
\* after one seasonal differencing of period m
auto_arima_raises(series) ==
  \/ series = <<>>
  \/ ~is_constant(series) /\ Len(series) <= seasonal_m

\* the months from p to q
RECURSIVE MonthsFrom(_, _)
MonthsFrom(p, q) == IF p > q THEN <<>> ELSE <<p>> \o MonthsFrom(NextPeriod(p), q)

\* transactions.set_index("transaction_date").resample("M")["transaction_amt"]
\* .sum(): one row per month from the first to the last, zero for a month
\* without transactions
resample(df) ==
  LET g == GroupByMonth(df)
      keys == MonthsFrom(g[1].month, LastMonth(g))
  IN [k \in 1..Len(keys) |->
        [month |-> keys[k], transaction_amt |-> MonthSum(df, 1..Len(df), keys[k])]]

\* lines 185-211: the seasonal search comes first, with no handler around it:
\* when it raises, the cell stops there and nothing below it runs; otherwise
\* the cell goes on to resample the series, fit ARIMA(1, 1, 1) and forecast 9
\* months
SeasonalArima ==
  /\ pc = "auto_arima"
  /\ IF auto_arima_raises(monthly_spend)
     THEN /\ status' = [status EXCEPT !["seasonal"] = "error"]
          /\ UNCHANGED <<monthly_spend, forecast>>
     ELSE /\ monthly_spend' = resample(transactions)
          /\ forecast' = period_range(NextPeriod(LastMonth(monthly_spend')),
                                      forecast_steps_seasonal)
          /\ status' = [status EXCEPT !["seasonal"] = "ok"]
  /\ pc' = "features"
  /\ UNCHANGED <<inputs, fi, pos, transactions_list, transactions, accounts,
                 fraud_cases, fraud_trans, rams, rams_latest, features_df, X, y,
                 model, predictions_df, risk_labels>>

\* ---------------------------------------------------------------- cell 8
\* msk: the feature window May-Sep 2024
msk(row) ==
  DateGE(row.transaction_date, FeatStart) /\ DateLE(row.transaction_date, FeatEnd)

\* a label window that starts on the last day of the feature window
msk_q4_overlap(row) ==
  DateGE(row.transaction_date, FeatEnd) /\ DateLE(row.transaction_date, LabelEnd)

\* msk_q4: the label window Oct-Dec 2024
msk_q4(row) ==
  DateGE(row.transaction_date, LabelStart) /\ DateLE(row.transaction_date, LabelEnd)

\* transactions.loc[m].groupby("current_account_nbr")["transaction_amt"].sum(),
\* with sel the positions of the rows the mask m selects: the group keys, and
\* the sum of one group
GroupKeys(df, sel) == {df[i].current_account_nbr : i \in sel}

RECURSIVE GroupSum(_, _, _)
GroupSum(df, sel, a) ==
  IF sel = {} THEN 0
  ELSE LET i == CHOOSE x \in sel : TRUE
       IN (IF df[i].current_account_nbr = a THEN df[i].transaction_amt ELSE 0)
          + GroupSum(df, sel \ {i}, a)

\* transactions.loc[msk], transactions.loc[msk_q4]: the selected positions
loc_msk == {i \in 1..Len(transactions) : msk(transactions[i])}
loc_msk_q4 == {i \in 1..Len(transactions) : msk_q4(transactions[i])}

may_sep_2024(a) == GroupSum(transactions, loc_msk, a)
q4_2024(a) == GroupSum(transactions, loc_msk_q4, a)

\* pd.DataFrame(may_sep_2024).join(q4_2024, how="inner"): the accounts with a
\* sum in both windows
InnerKeys ==
  Ascending(GroupKeys(transactions, loc_msk) \cap GroupKeys(transactions, loc_msk_q4))

\* a fill that leaves missing values in place
fillna_skipped(v) == v

\* fillna(0)
fillna(v) == IF v = NaN THEN 0 ELSE v

\* .join(accounts.set_index(key)[["cu_crd_line", "cu_crd_bureau_scr"]], how="left")
\* followed by fillna(0): one row per matching account row, or one with zeros
RECURSIVE CreditRows(_, _)
CreditRows(a, accts) ==
  IF accts = <<>> THEN <<>>
  ELSE (IF Head(accts).current_account_nbr = a
        THEN << [current_account_nbr |-> a,
                 spend_MaySep_2024 |-> may_sep_2024(a),
                 spend_Q4_2024 |-> q4_2024(a),
                 cu_crd_line |-> fillna(Head(accts).cu_crd_line),
                 cu_crd_bureau_scr |-> fillna(Head(accts).cu_crd_bureau_scr)] >>
        ELSE <<>>) \o CreditRows(a, Tail(accts))

\* a join that drops the accounts without a row in the account table
FeatureRowsInner(a) == CreditRows(a, accounts)

FeatureRows(a) ==
  IF CreditRows(a, accounts) = <<>>
  THEN << [current_account_nbr |-> a,
           spend_MaySep_2024 |-> may_sep_2024(a),
           spend_Q4_2024 |-> q4_2024(a),
           cu_crd_line |-> fillna(NaN),
           cu_crd_bureau_scr |-> fillna(NaN)] >>
  ELSE CreditRows(a, accounts)

RECURSIVE FeatureTable(_)
FeatureTable(keys) ==
  IF keys = <<>> THEN <<>> ELSE FeatureRows(Head(keys)) \o FeatureTable(Tail(keys))

\* X = features_df[["spend_MaySep_2024", "cu_crd_line", "cu_crd_bureau_scr"]]
FeatureMatrix(df) ==
  [i \in 1..Len(df) |->
     [current_account_nbr |-> df[i].current_account_nbr,
      spend_MaySep_2024 |-> df[i].spend_MaySep_2024,
      cu_crd_line |-> df[i].cu_crd_line,
      cu_crd_bureau_scr |-> df[i].cu_crd_bureau_scr]]

\* y = features_df["spend_Q4_2024"]
Target(df) == [i \in 1..Len(df) |-> df[i].spend_Q4_2024]

\* train_test_split(test_size=0.2): ceil(0.2 n) test rows, the rest train rows
n_test(n) == (n + 4) \div 5
n_train(n) == n - n_test(n)

\* what the fitted forest retains of its training labels: every prediction is
\* an average of training labels, so it lies between their least and greatest
FitForest(df, train) ==
  LET ys == {df[i].spend_Q4_2024 : i \in train}
  IN [fitted |-> TRUE,
      lo |-> CHOOSE w \in ys : \A z \in ys : w <= z,
      hi |-> CHOOSE w \in ys : \A z \in ys : z <= w]

\* lines 293-314: build the feature table, split it and fit the regressor;
\* the split raises when the train set would be empty
BuildFeatures ==
  /\ pc = "features"
  /\ features_df' = FeatureTable(InnerKeys)
  /\ X' = FeatureMatrix(features_df')
  /\ y' = Target(features_df')
  /\ IF n_train(Len(features_df')) = 0
     THEN /\ status' = [status EXCEPT !["features"] = "error"]
          /\ UNCHANGED model
     ELSE /\ \E test \in SUBSET (1..Len(features_df')) :
               /\ Cardinality(test) = n_test(Len(features_df'))
               /\ model' = FitForest(features_df', (1..Len(features_df')) \ test)
          /\ status' = [status EXCEPT !["features"] = "ok"]
  /\ pc' = "segment"
  /\ UNCHANGED <<inputs, fi, pos, transactions_list, transactions, accounts,
                 fraud_cases, fraud_trans, rams, rams_latest, monthly_spend, forecast,
                 predictions_df, risk_labels>>

\* ---------------------------------------------------------------- cell 11
bins == <<0, T1, T2>>
labels == <<"Low", "Medium", "High">>

\* pd.cut(x, bins=[0, 1000, 10000, inf], labels=labels): right-closed
\* intervals, the lowest edge excluded; a value in no interval gets no tier
cut(p) ==
  IF p > bins[1] /\ p <= bins[2] THEN labels[1]
  ELSE IF p > bins[2] /\ p <= bins[3] THEN labels[2]
  ELSE IF p > bins[3] THEN labels[3]
  ELSE "NaN"

\* the values model.predict can return
PredGrid == {-500, 0, 500, T1, T1 + 1, 5000, T2, T2 + 1, 15000}
Predictable == {model.lo, model.hi} \cup {g \in PredGrid : model.lo <= g /\ g <= model.hi}

\* lines 368-375: predict for every feature row and assign the tier; without a
\* fitted regressor model.predict raises
Segment ==
  /\ pc = "segment"
  /\ IF ~model.fitted
     THEN /\ status' = [status EXCEPT !["segment"] = "error"]
          /\ UNCHANGED predictions_df
     ELSE /\ \E ps \in [1..Len(features_df) -> Predictable] :
               predictions_df' =
                 [i \in 1..Len(features_df) |->
                    [account |-> features_df[i].current_account_nbr,
                     predicted_Q4_2025 |-> ps[i],
                     spending_tier |-> cut(ps[i])]]
          /\ status' = [status EXCEPT !["segment"] = "ok"]
  /\ pc' = "risk"
  /\ UNCHANGED <<inputs, fi, pos, transactions_list, transactions, accounts,
                 fraud_cases, fraud_trans, rams, rams_latest, monthly_spend, forecast,
                 features_df, X, y, model, risk_labels>>

\* ---------------------------------------------------------------- cell 15
\* fraud_accounts = set(fraud_cases["current_account_nbr"])
fraud_accounts == {r.current_account_nbr : r \in Range(fraud_cases)}

\* accounts[accounts["date_in_collection"].notna()]["current_account_nbr"]
collections_accounts ==
  {r.current_account_nbr : r \in {x \in Range(accounts) : x.date_in_collection # NaT}}

\* risk_labels = pd.Series(0, index=risk_features.index)
ZeroLabels ==
  [i \in 1..Len(accounts) |->
     [current_account_nbr |-> accounts[i].current_account_nbr, risk_label |-> 0]]

\* s.loc[list(ids)] = 1: every row whose index label is in ids
SetLabels(s, ids) ==
  [i \in 1..Len(s) |->
     IF s[i].current_account_nbr \in ids
     THEN [current_account_nbr |-> s[i].current_account_nbr, risk_label |-> 1]
     ELSE s[i]]

\* .loc with a list raises KeyError when a label of the list is not in the index
KeyError(s, ids) == \E a \in ids : \A i \in 1..Len(s) : s[i].current_account_nbr # a

\* risk_features: the account rows with their score columns, indexed by
\* account; cu_crd_bureau_scr stands for the score columns of the snapshot,
\* which all reach this table by the same join
risk_features ==
  [i \in 1..Len(accounts) |->
     [current_account_nbr |-> accounts[i].current_account_nbr,
      cu_crd_bureau_scr |-> accounts[i].cu_crd_bureau_scr]]

\* the rows of one feature row joined with the label rows of its account
RECURSIVE LabelMatches(_, _)
LabelMatches(r, labs) ==
  IF labs = <<>> THEN <<>>
  ELSE (IF Head(labs).current_account_nbr = r.current_account_nbr
        THEN << [current_account_nbr |-> r.current_account_nbr,
                 cu_crd_bureau_scr |-> r.cu_crd_bureau_scr,
                 risk_label |-> Head(labs).risk_label] >>
        ELSE <<>>) \o LabelMatches(r, Tail(labs))

\* risk_features.join(risk_labels, how="inner")
RECURSIVE JoinLabels(_, _)
JoinLabels(feats, labs) ==
  IF feats = <<>> THEN <<>>
  ELSE LabelMatches(Head(feats), labs) \o JoinLabels(Tail(feats), labs)

\* X = risk_data.drop(columns="risk_label").fillna(0)
RiskMatrix(risk_data) ==
  [i \in 1..Len(risk_data) |->
     [current_account_nbr |-> risk_data[i].current_account_nbr,
      cu_crd_bureau_scr |-> fillna(risk_data[i].cu_crd_bureau_scr)]]

\* y = risk_data["risk_label"]
RiskTarget(risk_data) == [i \in 1..Len(risk_data) |-> risk_data[i].risk_label]

\* clf.fit raises ValueError unless the labels hold two classes
FitRaises(target) == Cardinality(Range(target)) < 2

\* lines 449-472: the labelling, then the classifier on the labelled table. A
\* KeyError in the labelling leaves the labels assigned so far and stops the
\* cell; status["risk"] is the outcome of the labelling (lines 449-460),
\* status["classifier"] the outcome of the fit (lines 463-472).
RiskLabel ==
  /\ pc = "risk"
  /\ IF KeyError(ZeroLabels, fraud_accounts)
     THEN /\ risk_labels' = ZeroLabels
          /\ status' = [status EXCEPT !["risk"] = "error"]
          /\ UNCHANGED <<X, y>>
     ELSE /\ risk_labels' = SetLabels(SetLabels(ZeroLabels, fraud_accounts),
                                      collections_accounts)
          /\ X' = RiskMatrix(JoinLabels(risk_features, risk_labels'))
          /\ y' = RiskTarget(JoinLabels(risk_features, risk_labels'))
          /\ status' = [status EXCEPT !["risk"] = "ok",
                                      !["classifier"] =
                                        IF FitRaises(y') THEN "error" ELSE "ok"]
  /\ pc' = "done"
  /\ UNCHANGED <<inputs, fi, pos, transactions_list, transactions, accounts,
                 fraud_cases, fraud_trans, rams, rams_latest, monthly_spend, forecast,
                 features_df, model, predictions_df>>

Next ==
  \/ ReadChunk
  \/ Concat
  \/ LoadTables
  \/ MergeTransactions
  \/ LatestSnapshot
  \/ FitArima
  \/ SeasonalArima
  \/ BuildFeatures
  \/ Segment
  \/ RiskLabel

Spec == Init /\ [][Next]_vars

\* ------------------------------------------------------------------ claims
AfterConcat == pc \notin {"read", "concat"}
AfterLoadCell == status["load"] = "ok"

InRange(row) ==
  /\ row.transaction_date # NaT
  /\ 20240501 <= row.transaction_date
  /\ row.transaction_date <= 20250331

CountInRange(df) == Cardinality({i \in 1..Len(df) : InRange(df[i])})

SnapshotInput(a) == {i \in 1..Len(rams_batch_cur) : rams_batch_cur[i].cu_account_nbr = a}
SnapshotDates(a) == {rams_batch_cur[i].cu_processing_date : i \in SnapshotInput(a)} \ {NaT}
MaxSnapshotDate(a) ==
  IF SnapshotDates(a) = {} THEN NaT
  ELSE CHOOSE d \in SnapshotDates(a) : \A e \in SnapshotDates(a) : e <= d
FirstWithMaxDate(a) ==
  CHOOSE i \in SnapshotInput(a) :
    /\ rams_batch_cur[i].cu_processing_date = MaxSnapshotDate(a)
    /\ \A j \in SnapshotInput(a) :
         rams_batch_cur[j].cu_processing_date = MaxSnapshotDate(a) => i <= j

\* C1: after the snapshot deduplication every account of the snapshot input
\* occurs exactly once in rams_latest; the retained row is an input row of that
\* account, its processing date is the maximum processing date of the
\* account's input rows, and among the rows with that date it is the first of
\* the input.
C1_LatestSnapshotPerAccount ==
  AfterLoadCell =>
    \A a \in {r.cu_account_nbr : r \in Range(rams_batch_cur)} :
      /\ Cardinality({i \in 1..Len(rams_latest) : rams_latest[i].cu_account_nbr = a}) = 1
      /\ \A i \in 1..Len(rams_latest) :
           rams_latest[i].cu_account_nbr = a =>
             /\ rams_latest[i].cu_processing_date = MaxSnapshotDate(a)
             /\ rams_latest[i].idx = FirstWithMaxDate(a)
             /\ rams_latest[i].cu_crd_line = rams_batch_cur[FirstWithMaxDate(a)].cu_crd_line

\* two rows of one account share its maximum date, after an older row
C1_Witness ==
  /\ AfterLoadCell
  /\ \E i, j, k \in 1..Len(rams_batch_cur) :
       /\ i < j /\ j < k
       /\ rams_batch_cur[i].cu_account_nbr = rams_batch_cur[j].cu_account_nbr
       /\ rams_batch_cur[j].cu_account_nbr = rams_batch_cur[k].cu_account_nbr
       /\ rams_batch_cur[i].cu_processing_date = 20240801
       /\ rams_batch_cur[j].cu_processing_date = 20250301
       /\ rams_batch_cur[k].cu_processing_date = 20250301
       /\ rams_batch_cur[j].cu_crd_line # rams_batch_cur[k].cu_crd_line
       /\ \E n \in 1..Len(rams_latest) : rams_latest[n].idx = j

\* C2: every row of the loaded transaction table has a transaction date in
\* the closed range 2024-05-01 .. 2025-03-31, whatever the files hold and
\* however they are chunked; no row with a missing date is loaded.
C2_LoadedDatesInRange ==
  /\ \A c \in 1..Len(transactions_list) :
       \A i \in 1..Len(transactions_list[c]) : InRange(transactions_list[c][i])
  /\ AfterConcat => \A i \in 1..Len(transactions) : InRange(transactions[i])

\* a file of two rows read in two chunks: the row dated on the last day of
\* the range is loaded, the row without a date is not
C2_Witness ==
  /\ pc = "load"
  /\ chunksize = 1
  /\ \E f \in 1..2 :
       /\ Len(files[f]) = 2
       /\ \E i, j \in 1..2 :
            /\ files[f][i].transaction_date = NaT
            /\ files[f][j].transaction_date = 20250331
  /\ Len(transactions) = 1
  /\ transactions[1].transaction_date = 20250331

\* C3: the concatenated table has as many rows as the two files have rows
\* passing the date filter, and every row value occurs in it as often as it
\* passes the filter in the two files together (no deduplication).
C3_ConcatKeepsEveryRow ==
  pc \in {"load", "merge_txn"} =>
    /\ Len(transactions) = CountInRange(files[1]) + CountInRange(files[2])
    /\ \A r \in Range(files[1]) \cup Range(files[2]) \cup Range(transactions) :
         Cardinality({i \in 1..Len(transactions) : transactions[i] = r})
           = IF InRange(r)
             THEN Cardinality({i \in 1..Len(files[1]) : files[1][i] = r})
                  + Cardinality({i \in 1..Len(files[2]) : files[2][i] = r})
             ELSE 0

\* the same in-range row in both files occurs twice in the result
C3_Witness ==
  /\ pc = "load"
  /\ Len(files[1]) = 1 /\ Len(files[2]) = 1
  /\ files[1][1] = files[2][1]
  /\ Len(transactions) = 2
  /\ transactions[1] = transactions[2]

TxnColumns(row) ==
  TxnRow(row.current_account_nbr, row.transaction_date, row.transaction_amt)

UniqueAccountIds(accts) ==
  \A i, j \in 1..Len(accts) :
    accts[i].current_account_nbr = accts[j].current_account_nbr => i = j

\* C4: the left join of the transactions to the account attributes keeps
\* every transaction row and invents none; a row whose account has no row in
\* the account table appears with client_id and open_date missing; with
\* unique account identifiers the result has exactly the input rows, in order.
C4_LeftJoinKeepsTransactions ==
  [][pc = "merge_txn" =>
       /\ \A i \in 1..Len(transactions) :
            \E j \in 1..Len(transactions') : TxnColumns(transactions'[j]) = transactions[i]
       /\ \A j \in 1..Len(transactions') :
            \E i \in 1..Len(transactions) : TxnColumns(transactions'[j]) = transactions[i]
       /\ Len(transactions') >= Len(transactions)
       /\ \A i \in 1..Len(transactions) :
            (\A k \in 1..Len(accounts) :
               accounts[k].current_account_nbr # transactions[i].current_account_nbr)
            => \E j \in 1..Len(transactions') :
                 /\ TxnColumns(transactions'[j]) = transactions[i]
                 /\ transactions'[j].client_id = NaN
                 /\ transactions'[j].open_date = NaT
       /\ UniqueAccountIds(accounts) =>
            /\ Len(transactions') = Len(transactions)
            /\ \A i \in 1..Len(transactions) :
                 TxnColumns(transactions'[i]) = transactions[i]
    ]_vars

\* a joined table holding a transaction of a known account and one of an
\* account that the account table does not have
C4_Witness ==
  /\ pc = "snapshot"
  /\ UniqueAccountIds(account_dim)
  /\ Len(transactions) = 2
  /\ \E i, j \in 1..2 :
       /\ transactions[i].client_id = NaN
       /\ transactions[i].open_date = NaT
       /\ transactions[j].client_id = 7

FeaturesBuilt == pc \in {"segment", "risk", "done"}

InLabelWindow(row) ==
  /\ row.transaction_date # NaT
  /\ 20241001 <= row.transaction_date
  /\ row.transaction_date <= 20241231

InFeatureWindow(row) ==
  /\ row.transaction_date # NaT
  /\ 20240501 <= row.transaction_date
  /\ row.transaction_date <= 20240930

RECURSIVE SumOver(_, _)
SumOver(df, S) ==
  IF S = {} THEN 0
  ELSE LET i == CHOOSE x \in S : TRUE
       IN df[i].transaction_amt + SumOver(df, S \ {i})

SumInLabelWindow(df, a) ==
  SumOver(df, {i \in 1..Len(df) : df[i].current_account_nbr = a /\ InLabelWindow(df[i])})

\* C5: the label spend_Q4_2024 of every feature row is the sum of the amounts
\* of exactly the account's rows of the transaction table dated 2024-10-01 ..
\* 2024-12-31, and no row of the transaction table is selected by both the
\* feature-window mask and the label-window mask.
C5_LabelFromLabelWindowOnly ==
  FeaturesBuilt =>
    /\ \A i \in 1..Len(features_df) :
         features_df[i].spend_Q4_2024
           = SumInLabelWindow(transactions, features_df[i].current_account_nbr)
    /\ \A i \in 1..Len(transactions) : ~(msk(transactions[i]) /\ msk_q4(transactions[i]))

\* account 1 has a transaction on the last day of the feature window and one
\* on each end of the label window; its label is the sum of the latter two
C5_Witness ==
  /\ FeaturesBuilt
  /\ Len(files[1]) = 3
  /\ files[1][1].transaction_date = 20240930 /\ files[1][1].transaction_amt = 2
  /\ files[1][2].transaction_date = 20241001 /\ files[1][2].transaction_amt = 1
  /\ files[1][3].transaction_date = 20241231 /\ files[1][3].transaction_amt = 2
  /\ \E i \in 1..Len(features_df) :
       /\ features_df[i].current_account_nbr = 1
       /\ features_df[i].spend_MaySep_2024 = 2
       /\ features_df[i].spend_Q4_2024 = 3

\* C6: every feature of a training row comes from records dated before
\* 2024-10-01, the start of the label window: the transactions summed into
\* spend_MaySep_2024, and the snapshot row whose credit line and bureau score
\* are joined in.
C6_NoLeakage ==
  FeaturesBuilt =>
    /\ \A i \in 1..Len(transactions) :
         msk(transactions[i]) => transactions[i].transaction_date < 20241001
    /\ \A i \in 1..Len(features_df) :
         \A k \in 1..Len(accounts) :
           (/\ accounts[k].current_account_nbr = features_df[i].current_account_nbr
            /\ accounts[k].cu_processing_date # NaT)
           => accounts[k].cu_processing_date < 20241001

\* C7: every account of the account table without a transaction in the
\* feature window has a row in the feature table, with spend_MaySep_2024 = 0.
C7_ZeroSpendRow ==
  FeaturesBuilt =>
    \A k \in 1..Len(accounts) :
      (\A i \in 1..Len(transactions) :
            transactions[i].current_account_nbr = accounts[k].current_account_nbr
            => ~InFeatureWindow(transactions[i]))
      => \E i \in 1..Len(features_df) :
           /\ features_df[i].current_account_nbr = accounts[k].current_account_nbr
           /\ features_df[i].spend_MaySep_2024 = 0

Segmented == pc \in {"risk", "done"} /\ status["segment"] = "ok"

\* C8: every prediction row has the tier of the threshold rule: Low up to
\* 1000, Medium above 1000 up to 10000, High above 10000, for every predicted
\* value, zero and negative values included.
C8_TierRule ==
  Segmented =>
    \A i \in 1..Len(predictions_df) :
      LET p == predictions_df[i].predicted_Q4_2025
          t == predictions_df[i].spending_tier
      IN /\ p <= 1000 => t = "Low"
         /\ (1000 < p /\ p <= 10000) => t = "Medium"
         /\ p > 10000 => t = "High"

\* C9: after segmentation every account of the account table has a tier, and
\* an account without a row in the feature table has tier Low.
C9_AbsentAccountsLow ==
  Segmented =>
    \A k \in 1..Len(accounts) :
      /\ \E i \in 1..Len(predictions_df) :
           predictions_df[i].account = accounts[k].current_account_nbr
      /\ (\A i \in 1..Len(features_df) :
            features_df[i].current_account_nbr # accounts[k].current_account_nbr)
         => \E i \in 1..Len(predictions_df) :
              /\ predictions_df[i].account = accounts[k].current_account_nbr
              /\ predictions_df[i].spending_tier = "Low"

\* C10: for every fraud-case table the labelling completes, and every account
\* that the fraud-case table names has risk_label = 1.
C10_FraudAccountsLabelled ==
  pc = "done" =>
    /\ status["risk"] = "ok"
    /\ \A a \in {r.current_account_nbr : r \in Range(fraud_claim_case)} :
         \A i \in 1..Len(risk_labels) :
           risk_labels[i].current_account_nbr = a => risk_labels[i].risk_label = 1

\* C11: after a completed labelling, an account of the account table that the
\* fraud-transaction table names has risk_label = 1, with or without a row in
\* the fraud-case table.
C11_FraudTransactionsLabelled ==
  (pc = "done" /\ status["risk"] = "ok") =>
    \A a \in {r.current_account_nbr : r \in Range(fraud_trans)} :
      \A i \in 1..Len(risk_labels) :
        risk_labels[i].current_account_nbr = a => risk_labels[i].risk_label = 1

AfterSeasonalCell == status["seasonal"] # "none"

\* C13: once the seasonal cell has run on a monthly series that makes the
\* seasonal fit fail, the failure has not stopped the cell: the non-seasonal ARIMA fit below the seasonal attempt has run and the
\* forecast holds its 9 months.
C13_FallbackAfterSeasonalFailure ==
  (AfterSeasonalCell /\ monthly_spend # <<>> /\ auto_arima_raises(monthly_spend)) =>
    /\ status["seasonal"] = "ok"
    /\ Len(forecast) = 9

\* C14: the seasonal fit with period 12 is only ever attempted on a monthly
\* series with more than 12 months; on a shorter series it is not invoked.
C14_SeasonalFitOnlyOnLongSeries ==
  [][(pc = "auto_arima" /\ pc' = "features") => Len(monthly_spend) > 12]_vars

\* C15: every row of a matrix X and of a target y, as built for the regressor
\* and for the risk classifier, holds a value for every column: a value
\* missing in the joined tables has been replaced by 0 before fit or predict.
C15_NoMissingValuesInModelInput ==
  /\ \A i \in 1..Len(X) : \A c \in DOMAIN X[i] : X[i][c] # NaN
  /\ \A i \in 1..Len(y) : y[i] # NaN

\* a finished run with a fitted regressor and a classifier fit, for an account
\* without a snapshot: its credit line and its score are 0 in the model inputs
C15_Witness ==
  /\ pc = "done"
  /\ model.fitted
  /\ status["classifier"] # "none"
  /\ \E k \in 1..Len(accounts) :
       /\ accounts[k].cu_crd_bureau_scr = NaN
       /\ accounts[k].cu_crd_line = NaN
       /\ \E i \in 1..Len(X) :
            /\ X[i].current_account_nbr = accounts[k].current_account_nbr
            /\ X[i].cu_crd_bureau_scr = 0
       /\ \E j \in 1..Len(features_df) :
            /\ features_df[j].current_account_nbr = accounts[k].current_account_nbr
            /\ features_df[j].cu_crd_line = 0

\* C16: after the fixed-order ARIMA cell has run on the 11 months of the
\* ingestion range, the forecast covers the next 9 months, 2025-04 to 2025-12.
C16_ForecastNineMonths ==
  (pc = "auto_arima" /\ status["arima"] = "ok" /\ Len(monthly_spend) = 11) =>
    forecast = <<202504, 202505, 202506, 202507, 202508, 202509, 202510, 202511,
                 202512>>

\* the label the fraud-or-collections rule gives account a
RuleLabel(a) ==
  IF \/ \E r \in Range(fraud_claim_case) : r.current_account_nbr = a
     \/ \E r \in Range(account_dim) :
          r.current_account_nbr = a /\ r.date_in_collection # NaT
  THEN 1 ELSE 0

\* C17: after the labelling step every account of the account table has a
\* label, and it is 1 exactly when the account is in the fraud-case table or
\* has a date_in_collection, 0 otherwise.
C17_LabelIsFraudOrCollections ==
  pc = "done" =>
    \A k \in 1..Len(accounts) :
      /\ \E i \in 1..Len(risk_labels) :
           risk_labels[i].current_account_nbr = accounts[k].current_account_nbr
      /\ \A i \in 1..Len(risk_labels) :
           risk_labels[i].current_account_nbr = accounts[k].current_account_nbr
             => risk_labels[i].risk_label = RuleLabel(accounts[k].current_account_nbr)

\* the accounts with a transaction of the files in the feature window and one
\* in the label window
InBothWindows ==
  LET rows == Range(files[1]) \cup Range(files[2])
  IN {r.current_account_nbr : r \in {x \in rows : InFeatureWindow(x)}}
       \cap {r.current_account_nbr : r \in {x \in rows : InLabelWindow(x)}}

\* C18: the accounts of the regression feature table, and of the prediction
\* table made from it, are exactly the accounts with a transaction in the
\* feature window and one in the label window; when the account ids of the
\* account table are unique, each of them has exactly one row.
C18_FeatureAccountsInBothWindows ==
  /\ FeaturesBuilt =>
       /\ {features_df[i].current_account_nbr : i \in 1..Len(features_df)}
            = InBothWindows
       /\ UniqueAccountIds(account_dim) =>
            Len(features_df) = Cardinality(InBothWindows)
  /\ Segmented =>
       /\ {predictions_df[i].account : i \in 1..Len(predictions_df)} = InBothWindows
       /\ Len(predictions_df) = Len(features_df)

\* a segmented run with unique account ids and two accounts in the feature
\* table, one of them without a row in the account table
C18_Witness ==
  /\ Segmented
  /\ UniqueAccountIds(account_dim)
  /\ Len(features_df) = 2
  /\ \E i \in 1..Len(features_df) :
       \A k \in 1..Len(account_dim) :
         account_dim[k].current_account_nbr # features_df[i].current_account_nbr

\* one whole file filtered in a single pass
WholeFileFiltered(f) == SelectSeq(files[f], InRange)

\* C19: for every chunk size, the table concatenated from the filtered chunks
\* is the row sequence obtained by filtering each whole file once: the
\* surviving rows of the first file in file order, then those of the second.
C19_ChunkedEqualsUnchunked ==
  pc \in {"load", "merge_txn"} =>
    transactions = WholeFileFiltered(1) \o WholeFileFiltered(2)

\* a file of two different in-range rows read in two chunks of one row
C19_Witness ==
  /\ pc = "load"
  /\ chunksize = 1
  /\ Len(files[1]) = 2
  /\ files[1][1] # files[1][2]
  /\ Len(transactions_list) = 3
  /\ transactions = files[1]
====
